---- MODULE Spec2Model ----
(***************************************************************************)
(* A model of redtable's Client (src/client.go, the pooled version that    *)
(* starts at line 145): New, the lazily borrowed connection conn(), the    *)
(* MULTI / command / EXEC batch of doHashOp, the hash facade built on it,  *)
(* Close and ConnErr, together with the parts of the redigo pool, the      *)
(* redigo connection and the Redis server that the Client drives.          *)
(***************************************************************************)
EXTENDS Integers, Sequences, FiniteSets, TLC

(* ------------------------------- bounds ------------------------------- *)

\* facade calls (operations, Close, ConnErr) started in one run
MaxCalls == 3
\* connections the dialer can hand out before every further dial fails
MaxConns == 2
\* length of the endpoint list handed to New
MaxURLs == 3

(* -------------------------- program constants ------------------------- *)

MaxIdle == 4
MaxActive == 1000

(* ------------------------------ universes ----------------------------- *)

Goroutines == {"g1", "g2"}
Clients == {"c1", "c2"}
NoG == "none"

\* the keys of the store that hold hashes, and the one that holds a list
Tables == {"A", "B"}
ListTable == "L"
Keys == {"k", "j"}

\* a Go nil passed as an argument, and a hash field that is not there
NilArg == "<nil>"
Absent == "<absent>"

\* the Go values handed to HSet: a string, the bool true, nil
GoTrue == "bool:true"
Values == {"v", GoTrue, NilArg}
\* the Go values pushed on a list, and the indices asked of LIndex
Items == {"a", "b"}
Indices == {"0"}

ConnIds == 1 .. MaxConns

Endpoints == {"u1", "u2", "u3"}
NoURL == "none"

opMulti == "MULTI"
opExec == "EXEC"
opHGet == "HGET"
opHDel == "HDEL"
opHSet == "HSET"
opHExists == "HEXISTS"
opHLen == "HLEN"
opHMGet == "HMGET"
opHKeys == "HKEYS"
opLLen == "LLEN"
opLPush == "LPUSH"
opLPop == "LPOP"
opLIndex == "LINDEX"
opSIsMember == "SISMEMBER"
opSMembers == "SMEMBERS"

NoErr == "nil"
ErrConnectionAlreadyClosed == "connection already closed"
errInvalidRedisURLs == "expecting at least one valid URL connection URL"
\* errors of the redigo library and of the server
ErrPoolClosed == "redigo: get on closed pool"
ErrPoolExhausted == "redigo: connection pool exhausted"
ErrConnClosed == "redigo: connection closed"
ErrDial == "dial failed"
ErrIO == "i/o error"
ErrTeardown == "teardown failed"
ErrNestedMulti == "ERR MULTI calls can not be nested"
ErrExecWithoutMulti == "ERR EXEC without MULTI"
ErrExecAbort == "EXECABORT"
ErrValuesType == "redigo: unexpected type for Values"
ErrWrongType == "WRONGTYPE Operation against a key holding the wrong kind of value"
ErrParseBool == "strconv.ParseBool: invalid syntax"
ErrParseInt == "strconv.ParseInt: invalid syntax"

SimpleOps == {"HSet", "HGet", "HDel", "HExists", "HLen", "HMGet", "HKeys", "LPush", "LPop", "LLen",
              "LIndex", "SIsMember", "SMembers"}
CompoundOps == {"HPop", "HMove"}
FacadeOps == SimpleOps \cup CompoundOps

VARIABLES
    \* the Clients
    curConn,      \* Client._curConn
    connMu,       \* Client.connMu: the goroutine holding it, or NoG
    onceDone,     \* Client.closeOnce: its function has run
    onceMu,       \* Client.closeOnce: the goroutine inside Do, or NoG
    pool,         \* Client.pool: closed, active, idle
    \* the connections and, for each, the server's session
    conns,
    \* the store
    store,
    \* the goroutines
    clientOf,     \* the Client a goroutine calls
    pc,
    frame,        \* the facade call in progress
    cn,           \* the connection conn() returned to doHashOp
    ret,          \* the last facade call's outcome
    calls,        \* facade calls started
    \* history
    closeLog,     \* per Client, what each Close returned, in order
    teardown,     \* per Client, what pool.Close() returned
    outside,      \* a command ran outside its own call's MULTI/EXEC
    ioFault,      \* an i/o error has happened
    obs,          \* what the calls made so far lead their caller to expect
    \* New
    urls, reachable, newPc, newIdx, newDialFn, newErr, newClient, dialed, probeOpen

clientVars == <<curConn, connMu, onceDone, onceMu, pool>>
goVars == <<clientOf, pc, frame, cn, ret, calls>>
histVars == <<closeLog, teardown, outside, ioFault, obs>>
newVars == <<urls, reachable, newPc, newIdx, newDialFn, newErr, newClient, dialed, probeOpen>>
vars == <<clientVars, conns, store, goVars, histVars, newVars>>

(* ----------------------------- connections ---------------------------- *)

NilConn == [kind |-> "nil", id |-> 0, err |-> NoErr]
PooledConn(i) == [kind |-> "pooled", id |-> i, err |-> NoErr]
ErrorConn(e) == [kind |-> "error", id |-> 0, err |-> e]

NoSession == [inMulti |-> FALSE, queue |-> <<>>]
Undialed == [state |-> "undialed", pool |-> "c1", err |-> NoErr, multi |-> FALSE, buf |-> <<>>, sess |-> NoSession]
FreshConn(c) == [state |-> "active", pool |-> c, err |-> NoErr, multi |-> FALSE, buf |-> <<>>, sess |-> NoSession]

\* redis.Conn.Err() of the value held in a redis.Conn variable
ConnErrOf(ref, cs) ==
    IF ref.kind = "error" THEN ref.err
    ELSE IF ref.kind = "nil" THEN NoErr
    ELSE IF cs[ref.id].state \in {"closed", "idle"} THEN ErrConnClosed
    ELSE cs[ref.id].err

(* -------------------------------- pool -------------------------------- *)

EmptyPool == [closed |-> FALSE, active |-> 0, idle |-> <<>>]

FreeIds(cs) == {i \in ConnIds : cs[i].state = "undialed"}
MinOf(S) == CHOOSE x \in S : \A y \in S : x <= y

\* redis.Pool.Get of the pool poolFromDialer builds (Wait is not set): an idle
\* connection first, an error connection when the pool is closed, a fresh dial
\* while fewer than MaxActive are active, an error connection otherwise.
\* Result: the redis.Conn returned, the pool and the connections afterwards.
PoolGet(p, cs, c, dialOk) ==
    IF p.idle # <<>>
    THEN LET i == Head(p.idle) IN
         [ref |-> PooledConn(i),
          pool |-> [p EXCEPT !.idle = Tail(p.idle)],
          conns |-> [cs EXCEPT ![i].state = "active"]]
    ELSE IF p.closed
    THEN [ref |-> ErrorConn(ErrPoolClosed), pool |-> p, conns |-> cs]
    ELSE IF p.active < MaxActive
    THEN IF dialOk /\ FreeIds(cs) # {}
         THEN LET i == MinOf(FreeIds(cs)) IN
              [ref |-> PooledConn(i),
               pool |-> [p EXCEPT !.active = p.active + 1],
               conns |-> [cs EXCEPT ![i] = FreshConn(c)]]
         ELSE [ref |-> ErrorConn(ErrDial), pool |-> p, conns |-> cs]
    ELSE [ref |-> ErrorConn(ErrPoolExhausted), pool |-> p, conns |-> cs]

\* Client.poolConn: c.pool is set by New and never nil, so this is pool.Get()
poolConn(p, cs, c, dialOk) == PoolGet(p, cs, c, dialOk)

\* redis.Pool.put, reached from Close() of a borrowed connection: a healthy
\* connection goes back to the idle list (the oldest is closed past MaxIdle),
\* any other is closed.
PoolPut(p, cs, i, forceClose) ==
    IF ~p.closed /\ cs[i].err = NoErr /\ ~forceClose
    THEN IF Len(p.idle) + 1 > MaxIdle
         THEN LET old == p.idle[Len(p.idle)] IN
              [pool |-> [p EXCEPT !.idle = <<i>> \o SubSeq(p.idle, 1, Len(p.idle) - 1),
                                  !.active = p.active - 1],
               conns |-> [cs EXCEPT ![i].state = "idle", ![i].buf = <<>>,
                                    ![old].state = "closed"]]
         ELSE [pool |-> [p EXCEPT !.idle = <<i>> \o p.idle],
               conns |-> [cs EXCEPT ![i].state = "idle", ![i].buf = <<>>]]
    ELSE [pool |-> [p EXCEPT !.active = p.active - 1],
          conns |-> [cs EXCEPT ![i].state = "closed", ![i].buf = <<>>,
                               ![i].sess = NoSession]]

\* Close() of the value conn() holds in cn: nothing for an error connection or
\* one already closed, put() for a borrowed one (forced when a MULTI is open).
ConnClose(p, cs, ref) ==
    IF ref.kind = "pooled" /\ cs[ref.id].state = "active"
    THEN PoolPut(p, cs, ref.id, cs[ref.id].multi)
    ELSE [pool |-> p, conns |-> cs]

\* redis.Pool.Close: closes the idle connections and marks the pool closed;
\* the connections that are borrowed are left alone.
PoolClose(p, cs) ==
    [pool |-> [closed |-> TRUE, active |-> p.active - Len(p.idle), idle |-> <<>>],
     conns |-> [i \in ConnIds |->
                  IF \E n \in 1 .. Len(p.idle) : p.idle[n] = i
                  THEN [cs[i] EXCEPT !.state = "closed"]
                  ELSE cs[i]]]

(* ----------------------------- the server ----------------------------- *)

\* a command on the wire: by is the goroutine that sent it, call the number
\* of the facade call it belongs to among that goroutine's calls
Cmd(name, args, g, n) == [name |-> name, args |-> args, by |-> g, call |-> n]

\* a reply of the server: kind is status, error, int, bulk, nil or array;
\* by is the goroutine whose command it answers
Reply(kind, s, n, g) == [kind |-> kind, s |-> s, n |-> n, by |-> g, elems |-> <<>>]
ArrayReply(elems, g) == [kind |-> "array", s |-> "", n |-> 0, by |-> g, elems |-> elems]

\* how redigo writes an argument: a string as it is, nil as the empty
\* string, true as 1
ArgToBulk(a) == IF a = NilArg THEN "" ELSE IF a = GoTrue THEN "1" ELSE a

\* what fmt's %v makes of the same values
GoRepr(a) == IF a = GoTrue THEN "true" ELSE a

\* the store: under A and B the fields of a hash, under L the items of a
\* list, head first
EmptyStore ==
    [t \in Tables \cup {ListTable} |->
        IF t = ListTable THEN <<>> ELSE [k \in Keys |-> Absent]]

\* what the store holds under a key: nothing, a hash or a list
KeyType(st, t) ==
    IF t = ListTable
    THEN IF st[t] = <<>> THEN "none" ELSE "list"
    ELSE IF \A k \in Keys : st[t][k] = Absent THEN "none" ELSE "hash"

HashCmds == {opHSet, opHGet, opHDel, opHExists, opHLen, opHMGet, opHKeys}

\* the order in which the store lists the fields of a hash
KeyOrder == <<"k", "j">>

RECURSIVE Reverse(_)
Reverse(q) == IF q = <<>> THEN <<>> ELSE Append(Reverse(Tail(q)), Head(q))

\* LINDEX's index: from the head when it is not negative, else from the tail
ListAt(list, idx) ==
    LET n == IF idx = "0" THEN 1 ELSE IF idx = "1" THEN 2 ELSE Len(list)
    IN  IF n >= 1 /\ n <= Len(list) THEN list[n] ELSE Absent

\* a hash command on the store (the hashes live under A and B)
ApplyHash(cmd, st) ==
    LET t == cmd.args[1]
        k == cmd.args[2]
    IN  IF cmd.name = opHSet
        THEN [st |-> [st EXCEPT ![t][k] = ArgToBulk(cmd.args[3])],
              reply |-> Reply("int", "", IF st[t][k] = Absent THEN 1 ELSE 0, cmd.by)]
        ELSE IF cmd.name = opHDel
        THEN [st |-> [st EXCEPT ![t][k] = Absent],
              reply |-> Reply("int", "", IF st[t][k] = Absent THEN 0 ELSE 1, cmd.by)]
        ELSE IF cmd.name = opHExists
        THEN [st |-> st,
              reply |-> Reply("int", "", IF st[t][k] = Absent THEN 0 ELSE 1, cmd.by)]
        ELSE IF cmd.name = opHLen
        THEN [st |-> st,
              reply |-> Reply("int", "", Cardinality({j \in Keys : st[t][j] # Absent}), cmd.by)]
        ELSE IF cmd.name = opHKeys
        THEN LET Held(j) == st[t][j] # Absent
                 held == SelectSeq(KeyOrder, Held)
             IN  [st |-> st,
                  reply |-> ArrayReply([n \in 1 .. Len(held) |-> Reply("bulk", held[n], 0, cmd.by)],
                                       cmd.by)]
        ELSE IF cmd.name = opHMGet
        THEN [st |-> st,
              reply |-> ArrayReply(
                  [n \in 1 .. Len(cmd.args) - 1 |->
                      IF st[t][cmd.args[n + 1]] = Absent
                      THEN Reply("nil", "", 0, cmd.by)
                      ELSE Reply("bulk", st[t][cmd.args[n + 1]], 0, cmd.by)],
                  cmd.by)]
        ELSE \* opHGet
             [st |-> st,
              reply |-> IF st[t][k] = Absent
                        THEN Reply("nil", "", 0, cmd.by)
                        ELSE Reply("bulk", st[t][k], 0, cmd.by)]

\* a list command on a key that holds a list or nothing (the list lives
\* under L), and SISMEMBER on a key that holds nothing
ApplyList(cmd, st) ==
    LET t == cmd.args[1]
        list == IF t = ListTable THEN st[t] ELSE <<>>
        items == [n \in 1 .. Len(cmd.args) - 1 |-> ArgToBulk(cmd.args[n + 1])]
    IN  IF cmd.name = opLPush
        THEN [st |-> [st EXCEPT ![t] = Reverse(items) \o list],
              reply |-> Reply("int", "", Len(items) + Len(list), cmd.by)]
        ELSE IF cmd.name = opLPop
        THEN IF list = <<>>
             THEN [st |-> st, reply |-> Reply("nil", "", 0, cmd.by)]
             ELSE [st |-> [st EXCEPT ![t] = Tail(list)],
                   reply |-> Reply("bulk", Head(list), 0, cmd.by)]
        ELSE IF cmd.name = opLLen
        THEN [st |-> st, reply |-> Reply("int", "", Len(list), cmd.by)]
        ELSE IF cmd.name = opLIndex
        THEN [st |-> st,
              reply |-> IF ListAt(list, cmd.args[2]) = Absent
                        THEN Reply("nil", "", 0, cmd.by)
                        ELSE Reply("bulk", ListAt(list, cmd.args[2]), 0, cmd.by)]
        ELSE IF cmd.name = opSMembers
        THEN [st |-> st, reply |-> ArrayReply(<<>>, cmd.by)]
        ELSE \* opSIsMember
             [st |-> st, reply |-> Reply("int", "", 0, cmd.by)]

\* one data command on the store: the store afterwards and the reply; a
\* command for another kind of value than the key holds is refused
Apply(cmd, st) ==
    LET typ == KeyType(st, cmd.args[1])
        want == IF cmd.name \in HashCmds THEN "hash"
                ELSE IF cmd.name \in {opSIsMember, opSMembers} THEN "set" ELSE "list"
    IN  IF typ \notin {"none", want}
        THEN [st |-> st, reply |-> Reply("error", ErrWrongType, 0, cmd.by)]
        ELSE IF want = "hash" THEN ApplyHash(cmd, st)
        ELSE ApplyList(cmd, st)

\* EXEC runs the queued commands in order
RECURSIVE RunQueue(_, _, _)
RunQueue(queue, st, acc) ==
    IF queue = <<>>
    THEN [st |-> st, replies |-> acc]
    ELSE LET Rest(r) == RunQueue(Tail(queue), r.st, Append(acc, r.reply))
         IN  Rest(Apply(Head(queue), st))

\* the server on one command of one connection: S holds the connection's
\* session, the store, the replies so far, and the history flag
ProcessOne(cmd, S) ==
    IF cmd.name = opMulti
    THEN IF S.sess.inMulti
         THEN [S EXCEPT !.replies = Append(@, Reply("error", ErrNestedMulti, 0, cmd.by))]
         ELSE [S EXCEPT !.sess.inMulti = TRUE,
                        !.replies = Append(@, Reply("status", "OK", 0, cmd.by))]
    ELSE IF cmd.name = opExec
    THEN IF ~S.sess.inMulti
         THEN [S EXCEPT !.replies = Append(@, Reply("error", ErrExecWithoutMulti, 0, cmd.by))]
         ELSE LET Changes(c, st) == Apply(c, st).st # st
                  Ran(r) ==
                      [sess |-> NoSession,
                       st |-> r.st,
                       replies |-> Append(S.replies, ArrayReply(r.replies, cmd.by)),
                       log |-> S.log \o S.sess.queue,
                       outside |-> S.outside
                           \/ \E n \in 1 .. Len(S.sess.queue) : S.sess.queue[n].by # cmd.by,
                       changed |-> S.changed \cup
                           {g \in Goroutines : \E n \in 1 .. Len(S.sess.queue) :
                               /\ S.sess.queue[n].by = g
                               /\ Changes(S.sess.queue[n],
                                          RunQueue(SubSeq(S.sess.queue, 1, n - 1),
                                                   S.st, <<>>).st)}]
              IN  Ran(RunQueue(S.sess.queue, S.st, <<>>))
    ELSE IF S.sess.inMulti
    THEN [S EXCEPT !.sess.queue = Append(@, cmd),
                   !.replies = Append(@, Reply("status", "QUEUED", 0, cmd.by))]
    ELSE LET Direct(r) ==
                 [S EXCEPT !.st = r.st,
                           !.replies = Append(@, r.reply),
                           !.outside = TRUE,
                           !.log = Append(@, cmd),
                           !.changed = IF r.st # S.st THEN @ \cup {cmd.by} ELSE @]
         IN  Direct(Apply(cmd, S.st))

\* the server on everything one flush delivers, in order
RECURSIVE Process(_, _)
Process(cmds, S) ==
    IF cmds = <<>> THEN S ELSE Process(Tail(cmds), ProcessOne(Head(cmds), S))

ServerRun(cmds, sess, st) ==
    Process(cmds, [sess |-> sess, st |-> st, replies |-> <<>>,
                   outside |-> FALSE, changed |-> {}, log |-> <<>>])

(* --------------------------- redigo's Do/Values ------------------------ *)

RECURSIVE FirstError(_)
FirstError(replies) ==
    IF replies = <<>> THEN NoErr
    ELSE IF Head(replies).kind = "error" THEN Head(replies).s
    ELSE FirstError(Tail(replies))

\* redis.Values(conn.Do(opExec)): Do reads every pending reply, returns the
\* last one and the first error reply among them; Values turns an array reply
\* into the list and anything else into an error.
ValuesOfDo(replies) ==
    LET err == FirstError(replies)
        last == replies[Len(replies)]
    IN  IF err # NoErr THEN [err |-> err, list |-> <<>>]
        ELSE IF last.kind = "array" THEN [err |-> NoErr, list |-> last.elems]
        ELSE [err |-> ErrValuesType, list |-> <<>>]

(* ------------------------------ the facade ---------------------------- *)

NoReply == Reply("nil", "", 0, NoG)

\* the value a facade method hands on as an argument: the bulk string, or nil
ReplyToArg(r) == IF r.kind = "bulk" THEN r.s ELSE NilArg

\* allArgs with the collection appended instead of put first
allArgsTableLast(hashTableName, args) == args \o <<hashTableName>>

\* doHashOp's allArgs
allArgs(hashTableName, args) == <<hashTableName>> \o args

\* HGet sending opHExists
FacadeCallGetAsExists(f) ==
    IF f.op = "HSet" THEN [opName |-> opHSet, table |-> f.table, args |-> <<f.key, f.value>>]
    ELSE IF f.op \in {"HDel", "HPop", "HMove"}
    THEN [opName |-> opHDel, table |-> f.table, args |-> <<f.key>>]
    ELSE [opName |-> opHExists, table |-> f.table, args |-> <<f.key>>]

\* HMove setting the entry in the table it came from
FacadeCallMoveToSource(f) ==
    IF f.op = "HSet" THEN [opName |-> opHSet, table |-> f.table, args |-> <<f.key, f.value>>]
    ELSE IF f.op = "HGet" THEN [opName |-> opHGet, table |-> f.table, args |-> <<f.key>>]
    ELSE IF f.op = "HDel" THEN [opName |-> opHDel, table |-> f.table, args |-> <<f.key>>]
    ELSE IF f.op = "HExists" THEN [opName |-> opHExists, table |-> f.table, args |-> <<f.key>>]
    ELSE IF f.phase = 1 THEN [opName |-> opHGet, table |-> f.table, args |-> <<f.key>>]
    ELSE IF f.phase = 2 THEN [opName |-> opHDel, table |-> f.table, args |-> <<f.key>>]
    ELSE [opName |-> opHSet, table |-> f.table, args |-> <<f.key, ReplyToArg(f.entry)>>]

\* LPop sending opLLen
FacadeCallPopAsLen(f) ==
    IF f.op = "LPush" THEN [opName |-> opLPush, table |-> f.table, args |-> f.items]
    ELSE IF f.op = "LIndex" THEN [opName |-> opLIndex, table |-> f.table, args |-> f.items]
    ELSE IF f.op = "SIsMember" THEN [opName |-> opSIsMember, table |-> f.table, args |-> <<f.key>>]
    ELSE IF f.op = "HExists" THEN [opName |-> opHExists, table |-> f.table, args |-> <<f.key>>]
    ELSE [opName |-> opLLen, table |-> f.table, args |-> <<>>]

\* HLen sending opHExists for the key
FacadeCallLenAsExists(f) ==
    IF f.op = "HSet" THEN [opName |-> opHSet, table |-> f.table, args |-> <<f.key, f.value>>]
    ELSE IF f.op = "HGet" THEN [opName |-> opHGet, table |-> f.table, args |-> <<f.key>>]
    ELSE IF f.op = "HDel" THEN [opName |-> opHDel, table |-> f.table, args |-> <<f.key>>]
    ELSE IF f.op \in {"HExists", "HLen"}
    THEN [opName |-> opHExists, table |-> f.table, args |-> <<f.key>>]
    ELSE IF f.phase = 1 THEN [opName |-> opHGet, table |-> f.table, args |-> <<f.key>>]
    ELSE IF f.phase = 2 THEN [opName |-> opHDel, table |-> f.table, args |-> <<f.key>>]
    ELSE [opName |-> opHSet, table |-> f.table2, args |-> <<f.key, ReplyToArg(f.entry)>>]

\* HGet sending opHDel
FacadeCallGetAsDel(f) ==
    IF f.op = "HSet" THEN [opName |-> opHSet, table |-> f.table, args |-> <<f.key, f.value>>]
    ELSE IF f.op = "HGet" THEN [opName |-> opHDel, table |-> f.table, args |-> <<f.key>>]
    ELSE IF f.op = "HExists" THEN [opName |-> opHExists, table |-> f.table, args |-> <<f.key>>]
    ELSE IF f.op = "HLen" THEN [opName |-> opHLen, table |-> f.table, args |-> <<>>]
    ELSE IF f.op = "HMGet" THEN [opName |-> opHMGet, table |-> f.table, args |-> f.items]
    ELSE IF f.op = "HKeys" THEN [opName |-> opHKeys, table |-> f.table, args |-> <<>>]
    ELSE IF f.op = "LPush" THEN [opName |-> opLPush, table |-> f.table, args |-> f.items]
    ELSE IF f.op = "LLen" THEN [opName |-> opLLen, table |-> f.table, args |-> <<>>]
    ELSE IF f.op = "LIndex" THEN [opName |-> opLIndex, table |-> f.table, args |-> f.items]
    ELSE IF f.op = "SMembers" THEN [opName |-> opSMembers, table |-> f.table, args |-> <<>>]
    ELSE [opName |-> opSIsMember, table |-> f.table, args |-> <<f.key>>]

\* the doHashOp call a facade method makes in each of its phases:
\* HPop is HGet then HDel, HMove is HPop then HSet on the second table
FacadeCall(f) ==
    IF f.op = "HSet" THEN [opName |-> opHSet, table |-> f.table, args |-> <<f.key, f.value>>]
    ELSE IF f.op = "HGet" THEN [opName |-> opHGet, table |-> f.table, args |-> <<f.key>>]
    ELSE IF f.op = "HDel" THEN [opName |-> opHDel, table |-> f.table, args |-> <<f.key>>]
    ELSE IF f.op = "HExists" THEN [opName |-> opHExists, table |-> f.table, args |-> <<f.key>>]
    ELSE IF f.op = "HLen" THEN [opName |-> opHLen, table |-> f.table, args |-> <<>>]
    ELSE IF f.op = "HMGet" THEN [opName |-> opHMGet, table |-> f.table, args |-> f.items]
    ELSE IF f.op = "HKeys" THEN [opName |-> opHKeys, table |-> f.table, args |-> <<>>]
    ELSE IF f.op = "SMembers" THEN [opName |-> opSMembers, table |-> f.table, args |-> <<>>]
    ELSE IF f.op = "LPush" THEN [opName |-> opLPush, table |-> f.table, args |-> f.items]
    ELSE IF f.op = "LPop" THEN [opName |-> opLPop, table |-> f.table, args |-> <<>>]
    ELSE IF f.op = "LLen" THEN [opName |-> opLLen, table |-> f.table, args |-> <<>>]
    ELSE IF f.op = "LIndex" THEN [opName |-> opLIndex, table |-> f.table, args |-> f.items]
    ELSE IF f.op = "SIsMember" THEN [opName |-> opSIsMember, table |-> f.table, args |-> <<f.key>>]
    ELSE IF f.phase = 1 THEN [opName |-> opHGet, table |-> f.table, args |-> <<f.key>>]
    ELSE IF f.phase = 2 THEN [opName |-> opHDel, table |-> f.table, args |-> <<f.key>>]
    ELSE [opName |-> opHSet, table |-> f.table2, args |-> <<f.key, ReplyToArg(f.entry)>>]

\* HPop that gets and does not delete
PhasesPopNoDelete(op) == IF op = "HMove" THEN 3 ELSE 1

\* the number of doHashOp calls of a facade method that meets no error
Phases(op) == IF op = "HPop" THEN 2 ELSE IF op = "HMove" THEN 3 ELSE 1

NoFrame ==
    [op |-> "none", table |-> "A", table2 |-> "A", key |-> "k", value |-> NilArg,
     items |-> <<>>, pre |-> EmptyStore, call |-> 0, phase |-> 1, stage |-> opMulti, entry |-> NoReply,
     sent |-> <<>>, changed |-> FALSE, afterClose |-> FALSE,
     last |-> [done |-> FALSE, err |-> NoErr, list |-> <<>>]]

NewFrame(op, t, t2, k, v) ==
    [NoFrame EXCEPT !.op = op, !.table = t, !.table2 = t2, !.key = k, !.value = v]

\* a call of a list method: the items pushed, or the index asked for
ListFrame(op, t, items) == [NewFrame(op, t, t, "k", NilArg) EXCEPT !.items = items]

\* the calls a goroutine may make
Invocations ==
    {NewFrame("HSet", t, t, k, v) : t \in Tables, k \in {"k"}, v \in {"v"}}
    \cup {NewFrame("HGet", t, t, k, NilArg) : t \in Tables, k \in {"k"}}
    \cup {NewFrame(op, "A", "A", k, NilArg) : op \in {"HDel", "HPop"}, k \in {"k"}}
    \cup {NewFrame("HMove", "A", "B", k, NilArg) : k \in {"k"}}

\* the calls made where goroutines run side by side
ConcInvocations ==
    {NewFrame("HSet", "A", "A", k, v) : k \in {"k"}, v \in {"v"}}
    \cup {NewFrame("HGet", "A", "A", k, NilArg) : k \in {"k"}}

\* the hash calls made on a store that holds data already
HashInvocations ==
    {NewFrame("HSet", "A", "A", "k", v) : v \in Values}
    \cup {NewFrame("HSet", "B", "B", "k", "v")}
    \cup {NewFrame(op, t, t, "k", NilArg) : op \in {"HGet", "HExists", "HLen"}, t \in Tables}
    \cup {NewFrame(op, "A", "A", "k", NilArg) : op \in {"HDel", "HPop"}}
    \cup {NewFrame("HMove", "A", "B", "k", NilArg)}

\* the list calls, and the calls that ask a hash for a length or a member
ListInvocations ==
    {ListFrame("LPush", ListTable, items) :
        items \in {<<"a">>, <<"b">>, <<"a", "b">>, <<"b", "a">>}}
    \cup {ListFrame(op, ListTable, <<>>) : op \in {"LPop", "LLen"}}
    \cup {ListFrame("LIndex", ListTable, <<i>>) : i \in Indices}
    \cup {NewFrame(op, "A", "A", "k", NilArg) : op \in {"LLen", "SIsMember", "HExists"}}

\* the read calls, on a hash and on the list, with a few writes between them
ReadInvocations ==
    {NewFrame(op, "A", "A", "k", NilArg) :
        op \in {"HGet", "HExists", "HLen", "HKeys", "LLen", "SIsMember", "SMembers"}}
    \cup {ListFrame("HMGet", "A", <<"k", "j">>)}
    \cup {ListFrame(op, ListTable, <<>>) : op \in {"LLen", "SMembers"}}
    \cup {ListFrame("LIndex", ListTable, <<i>>) : i \in Indices}
    \cup {ListFrame("LPush", ListTable, <<"a">>), NewFrame("HSet", "A", "A", "j", "v")}

NoRet == [op |-> "none", err |-> NoErr, val |-> NoReply]

(* ------------------------------- Client ------------------------------- *)

\* sync.Mutex.Lock returns only while nobody holds the mutex, the caller included
MutexFree(holder, g) == holder = NoG

\* conn() that borrows again although the held connection is healthy
connBorrowEveryCall(cur, p, cs, c, dialOk) ==
    IF cur.kind = "nil" \/ ConnErrOf(cur, cs) = NoErr
    THEN LET r == poolConn(p, cs, c, dialOk)
         IN  [cur |-> r.ref, ref |-> r.ref, pool |-> r.pool, conns |-> r.conns,
              recurse |-> FALSE]
    ELSE LET r == ConnClose(p, cs, cur)
         IN  [cur |-> NilConn, ref |-> NilConn, pool |-> r.pool, conns |-> r.conns,
              recurse |-> TRUE]

\* the body of Client.conn, entered with connMu held: borrow when nothing is
\* held, hand out the held connection when it reports no error, and otherwise
\* close it, forget it and call conn() again (recurse)
conn(cur, p, cs, c, dialOk) ==
    IF cur.kind = "nil"
    THEN LET r == poolConn(p, cs, c, dialOk)
         IN  [cur |-> r.ref, ref |-> r.ref, pool |-> r.pool, conns |-> r.conns,
              recurse |-> FALSE]
    ELSE IF ConnErrOf(cur, cs) = NoErr
    THEN [cur |-> cur, ref |-> cur, pool |-> p, conns |-> cs, recurse |-> FALSE]
    ELSE LET r == ConnClose(p, cs, cur)
         IN  [cur |-> NilConn, ref |-> NilConn, pool |-> r.pool, conns |-> r.conns,
              recurse |-> TRUE]

\* Close with a closed flag that is set only when the teardown succeeded
CloseFlagOnSuccess(done, poolErr) ==
    IF done
    THEN [done |-> TRUE, err |-> ErrConnectionAlreadyClosed, ran |-> FALSE]
    ELSE [done |-> poolErr = NoErr, err |-> poolErr, ran |-> TRUE]

\* Close without the once: the teardown runs on every call
CloseUnguarded(done, poolErr) ==
    [done |-> TRUE, err |-> poolErr, ran |-> TRUE]

\* what closeOnce.Do leaves behind and what Close returns, given whether the
\* once has already run and what pool.Close() returns when it runs now
Close(done, poolErr) ==
    IF done
    THEN [done |-> TRUE, err |-> ErrConnectionAlreadyClosed, ran |-> FALSE]
    ELSE [done |-> TRUE, err |-> poolErr, ran |-> TRUE]

\* Client.ConnErr, with connMu held
ConnErr(cur, cs) == IF cur.kind # "nil" THEN ConnErrOf(cur, cs) ELSE NoErr

(* ------------------------ what the caller expects --------------------- *)

Unknown == "unknown"
Gone == "gone"

\* known: per hash field, the value of the last HSet that succeeded, Gone
\*   after an HPop or HMove that succeeded, Unknown after any other change;
\* expect: the items that pushes and pops that succeeded leave on the list,
\*   in the order pushed; popped: the pops that took an item; listKnown: no
\*   other change was made to the list;
\* issued: the facade calls each goroutine has started;
\* lastApplied: per goroutine, the call of its command the store ran last;
\* reordered: the store ran a command of an earlier call after one of a
\*   later call of the same goroutine;
\* ran: per Client, how often pool.Close() was run
NoObs ==
    [known |-> [t \in Tables |-> [k \in Keys |-> Unknown]],
     expect |-> <<>>,
     popped |-> 0,
     listKnown |-> TRUE,
     issued |-> [g \in Goroutines |-> 0],
     lastApplied |-> [g \in Goroutines |-> 0],
     reordered |-> FALSE,
     ran |-> [c \in Clients |-> 0]]

MaxOf(S) == CHOOSE x \in S : \A y \in S : x >= y

\* obs after the store has run the commands in log, in that order
ObserveLog(o, log) ==
    [o EXCEPT
        !.reordered = @
            \/ (\E n \in 1 .. Len(log) : log[n].call < o.lastApplied[log[n].by])
            \/ (\E i \in 1 .. Len(log), j \in 1 .. Len(log) :
                   i < j /\ log[i].by = log[j].by /\ log[i].call > log[j].call),
        !.lastApplied = [g \in Goroutines |->
            MaxOf({o.lastApplied[g]} \cup {log[m].call : m \in {n \in 1 .. Len(log) : log[n].by = g}})]]

\* obs after a doHashOp of the call f that took the store from st to st1;
\* ok: the facade call has returned, without an error
ObserveCall(o, f, st, st1, ok) ==
    [o EXCEPT
        !.known = [t \in Tables |-> [k \in Keys |->
            IF ok /\ f.op = "HSet" /\ t = f.table /\ k = f.key THEN f.value
            ELSE IF ok /\ f.op \in {"HPop", "HMove"} /\ t = f.table /\ k = f.key THEN Gone
            ELSE IF ok /\ f.op = "HMove" /\ t = f.table2 /\ k = f.key /\ f.entry.kind = "bulk"
            THEN f.entry.s
            ELSE IF st1[t][k] # st[t][k] THEN Unknown
            ELSE o.known[t][k]]],
        !.expect =
            IF ok /\ f.op = "LPush" /\ f.table = ListTable THEN @ \o f.items
            ELSE IF ok /\ f.op = "LPop" /\ f.table = ListTable /\ @ # <<>>
            THEN SubSeq(@, 1, Len(@) - 1)
            ELSE @,
        !.popped =
            IF ok /\ f.op = "LPop" /\ f.table = ListTable /\ o.expect # <<>> THEN @ + 1 ELSE @,
        !.listKnown = @ /\ (ok \/ st1[ListTable] = st[ListTable])]

(* ------------------------------ goroutines ---------------------------- *)

\* an unrecovered panic in one goroutine ends the process
Crashed == \E g \in Goroutines : pc[g] = "panic"

InitClientsWith(st) ==
    /\ curConn = [c \in Clients |-> NilConn]
    /\ connMu = [c \in Clients |-> NoG]
    /\ onceDone = [c \in Clients |-> FALSE]
    /\ onceMu = [c \in Clients |-> NoG]
    /\ pool = [c \in Clients |-> EmptyPool]
    /\ conns = [i \in ConnIds |-> Undialed]
    /\ store = st
    /\ pc = [g \in Goroutines |-> "idle"]
    /\ frame = [g \in Goroutines |-> NoFrame]
    /\ cn = [g \in Goroutines |-> NilConn]
    /\ ret = [g \in Goroutines |-> NoRet]
    /\ calls = 0
    /\ closeLog = [c \in Clients |-> <<>>]
    /\ teardown = [c \in Clients |-> NoErr]
    /\ outside = FALSE
    /\ ioFault = FALSE
    /\ obs = NoObs

\* the Clients as New returns them, the store empty
InitClients == InitClientsWith(EmptyStore)

\* New has returned the Clients; the dialer of each reaches its server
InitNewDone ==
    /\ urls = <<>>
    /\ reachable = {}
    /\ newPc = "off"
    /\ newIdx = 0
    /\ newDialFn = NoURL
    /\ newErr = NoErr
    /\ newClient = FALSE
    /\ dialed = <<>>
    /\ probeOpen = FALSE

\* the goroutines share the Client c1, or g1 calls c1 and g2 calls c2
Init ==
    /\ InitClients
    /\ InitNewDone
    /\ clientOf \in {[g \in Goroutines |-> "c1"],
                      [g \in Goroutines |-> IF g = "g1" THEN "c1" ELSE "c2"]}

\* a goroutine calls a facade method; the result of its last call is gone
StartOp(g, f) ==
    /\ ~Crashed
    /\ pc[g] = "idle"
    /\ calls < MaxCalls
    /\ calls' = calls + 1
    /\ frame' = [frame EXCEPT ![g] = [f EXCEPT !.afterClose = onceDone[clientOf[g]],
                                               !.pre = store,
                                               !.call = obs.issued[g] + 1]]
    /\ obs' = [obs EXCEPT !.issued[g] = @ + 1]
    /\ pc' = [pc EXCEPT ![g] = "conn"]
    /\ ret' = [ret EXCEPT ![g] = NoRet]
    /\ UNCHANGED <<clientVars, conns, store, clientOf, cn, closeLog, teardown,
                   outside, ioFault, newVars>>

\* doHashOp: c.conn(). Lock, the body and the deferred Unlock are one step,
\* as the mutex makes them; when the body calls conn() again the mutex stays
\* held and the goroutine is back at Lock
Conn(g, dialOk) ==
    /\ ~Crashed
    /\ pc[g] = "conn"
    /\ MutexFree(connMu[clientOf[g]], g)
    /\ LET c == clientOf[g]
           r == conn(curConn[c], pool[c], conns, c, dialOk)
       IN  /\ curConn' = [curConn EXCEPT ![c] = r.cur]
           /\ pool' = [pool EXCEPT ![c] = r.pool]
           /\ conns' = r.conns
           /\ IF r.recurse
              THEN /\ connMu' = [connMu EXCEPT ![c] = g]
                   /\ UNCHANGED <<pc, cn>>
              ELSE /\ connMu' = [connMu EXCEPT ![c] = NoG]
                   /\ pc' = [pc EXCEPT ![g] = "io"]
                   /\ cn' = [cn EXCEPT ![g] = r.ref]
    /\ UNCHANGED <<onceDone, onceMu, store, clientOf, frame, ret, calls, histVars, newVars>>

\* redis.Conn.Send on the value conn() returned: an error connection and a
\* connection closed meanwhile refuse; otherwise the command is buffered (ok),
\* or the write fails and the connection is broken from then on
SendOn(ref, cs, cmd, ok) ==
    IF ref.kind # "pooled" THEN [err |-> ref.err, conns |-> cs, fault |-> FALSE]
    ELSE IF cs[ref.id].state # "active"
    THEN [err |-> ErrConnClosed, conns |-> cs, fault |-> FALSE]
    ELSE IF ok
    THEN [err |-> NoErr,
          conns |-> [cs EXCEPT ![ref.id].buf = Append(@, cmd),
                               ![ref.id].multi = (cmd.name = opMulti) \/ @],
          fault |-> FALSE]
    ELSE [err |-> ErrIO, conns |-> [cs EXCEPT ![ref.id].err = ErrIO], fault |-> TRUE]

\* redis.Conn.Do(opExec) on the value conn() returned, through redis.Values:
\* the buffered commands and EXEC are flushed, the server runs them, and Do
\* reads every reply. The flush may fail (wfail: nothing reaches the server)
\* and so may the read (rfail: the server has run them, the replies are lost).
DoOn(ref, cs, st, cmd, outcome) ==
    LET quiet == [conns |-> cs, st |-> st, list |-> <<>>, outside |-> FALSE,
                  changed |-> {}, log |-> <<>>, fault |-> FALSE]
    IN  IF ref.kind # "pooled" THEN quiet @@ [err |-> ref.err]
        ELSE IF cs[ref.id].state # "active" THEN quiet @@ [err |-> ErrConnClosed]
        ELSE IF cs[ref.id].err # NoErr THEN quiet @@ [err |-> ErrIO]
        ELSE IF outcome = "wfail"
        THEN [quiet EXCEPT !.conns = [cs EXCEPT ![ref.id].err = ErrIO, ![ref.id].buf = <<>>],
                           !.fault = TRUE] @@ [err |-> ErrIO]
        ELSE LET Read(r, v) ==
                     IF outcome = "rfail"
                     THEN [conns |-> [cs EXCEPT ![ref.id].err = ErrIO, ![ref.id].buf = <<>>,
                                                ![ref.id].sess = NoSession],
                           st |-> r.st, list |-> <<>>, outside |-> r.outside,
                           changed |-> r.changed, log |-> r.log, fault |-> TRUE,
                           err |-> ErrIO]
                     ELSE [conns |-> [cs EXCEPT ![ref.id].buf = <<>>, ![ref.id].sess = r.sess,
                                                ![ref.id].multi = FALSE],
                           st |-> r.st, list |-> v.list, outside |-> r.outside,
                           changed |-> r.changed, log |-> r.log, fault |-> FALSE,
                           err |-> v.err]
                 Flushed(r) == Read(r, ValuesOfDo(r.replies))
             IN  Flushed(ServerRun(Append(cs[ref.id].buf, cmd), cs[ref.id].sess, st))

Sent(ref, cmd, err) == [conn |-> ref, name |-> cmd.name, args |-> cmd.args, ok |-> err = NoErr]

\* doHashOp ending with Do of the command again, not of EXEC
StageCmdNoExec(f, g) ==
    IF f.stage = opMulti THEN Cmd(opMulti, <<>>, g, f.call)
    ELSE Cmd(FacadeCall(f).opName, allArgs(FacadeCall(f).table, FacadeCall(f).args), g, f.call)

\* the command doHashOp sends at each of its three stages
StageCmd(f, g) ==
    IF f.stage = opMulti THEN Cmd(opMulti, <<>>, g, f.call)
    ELSE IF f.stage = opExec THEN Cmd(opExec, <<>>, g, f.call)
    ELSE Cmd(FacadeCall(f).opName, allArgs(FacadeCall(f).table, FacadeCall(f).args), g, f.call)

\* the methods that return doHashOp's reply list itself
WholeReplyOps == {"HMGet", "HKeys"}

\* strconv.ParseBool of fmt.Sprintf("%v", first), as HExists uses it
ParseBool(first) ==
    IF first.kind = "int" /\ first.n \in {0, 1}
    THEN [err |-> NoErr, val |-> Reply("bool", IF first.n = 1 THEN "true" ELSE "false", 0, first.by)]
    ELSE [err |-> ErrParseBool, val |-> Reply("bool", "false", 0, first.by)]

\* what a facade method makes of replies[0]: HExists parses it as a bool;
\* HLen returns an int64 as it is and parses the string form of anything
\* else; LLen and SIsMember assert that it is an int64, and a failed
\* assertion panics; the other methods return it as it is
Decode(op, first) ==
    IF op = "HExists"
    THEN [panic |-> FALSE, err |-> ParseBool(first).err, val |-> ParseBool(first).val]
    ELSE IF op = "HLen"
    THEN IF first.kind = "int"
         THEN [panic |-> FALSE, err |-> NoErr, val |-> first]
         ELSE [panic |-> FALSE, err |-> ErrParseInt, val |-> Reply("int", "", 0, first.by)]
    ELSE IF op = "LLen"
    THEN [panic |-> first.kind # "int", err |-> NoErr, val |-> first]
    ELSE IF op = "SIsMember"
    THEN [panic |-> first.kind # "int", err |-> NoErr,
          val |-> Reply("bool", IF first.n >= 1 THEN "true" ELSE "false", 0, first.by)]
    ELSE [panic |-> FALSE, err |-> NoErr, val |-> first]

\* HMove that does not look at the error of its HSet
AfterDoHashOpDropsSetError(f, err, list) ==
    LET f1 == [f EXCEPT !.last = [done |-> TRUE, err |-> err, list |-> list]]
    IN  IF err # NoErr /\ ~(f.op = "HMove" /\ f.phase = 3)
        THEN [pc |-> "idle", frame |-> f1, returns |-> TRUE,
              ret |-> [op |-> f.op, err |-> err, val |-> NoReply]]
        ELSE IF f.phase = Phases(f.op)
        THEN [pc |-> "idle", frame |-> f1, returns |-> TRUE,
              ret |-> [op |-> f.op, err |-> NoErr,
                       val |-> IF f.op \in CompoundOps THEN f.entry ELSE list[1]]]
        ELSE [pc |-> "conn", returns |-> FALSE, ret |-> NoRet,
              frame |-> [f1 EXCEPT !.phase = @ + 1, !.stage = opMulti, !.changed = FALSE,
                                   !.entry = IF f.phase = 1 THEN list[1] ELSE @]]

\* what the facade method does with doHashOp's result (f is the frame as the
\* call leaves it): an error is returned at once; HMGet and HKeys return the
\* reply list as it is; HSet, byKeyOp and so HGet and HDel read replies[0];
\* HPop and HMove go on to their next doHashOp
AfterDoHashOp(f, err, list) ==
    LET f1 == [f EXCEPT !.last = [done |-> TRUE, err |-> err, list |-> list]]
    IN  IF err # NoErr
        THEN [pc |-> "idle", frame |-> f1, returns |-> TRUE,
              ret |-> [op |-> f.op, err |-> err, val |-> NoReply]]
        ELSE IF f.op \in WholeReplyOps
        THEN [pc |-> "idle", frame |-> f1, returns |-> TRUE,
              ret |-> [op |-> f.op, err |-> NoErr, val |-> ArrayReply(list, NoG)]]
        ELSE IF list = <<>> \/ Decode(f.op, list[1]).panic
        THEN [pc |-> "panic", frame |-> f1, returns |-> FALSE, ret |-> NoRet]
        ELSE IF f.phase = Phases(f.op)
        THEN [pc |-> "idle", frame |-> f1, returns |-> TRUE,
              ret |-> [op |-> f.op, err |-> Decode(f.op, list[1]).err,
                       val |-> IF f.op \in CompoundOps THEN f.entry
                               ELSE Decode(f.op, list[1]).val]]
        ELSE [pc |-> "conn", returns |-> FALSE, ret |-> NoRet,
              frame |-> [f1 EXCEPT !.phase = @ + 1, !.stage = opMulti, !.changed = FALSE,
                                   !.entry = IF f.phase = 1 THEN list[1] ELSE @]]

\* doHashOp: c.conn().Send(opMulti) and c.conn().Send(opName, allArgs...)
Send(g, ok) ==
    /\ ~Crashed
    /\ pc[g] = "io"
    /\ frame[g].stage # opExec
    /\ LET f == frame[g]
           cmd == StageCmd(f, g)
           r == SendOn(cn[g], conns, cmd, ok)
           f1 == [f EXCEPT !.sent = Append(@, Sent(cn[g], cmd, r.err))]
       IN  /\ conns' = r.conns
           /\ ioFault' = (ioFault \/ r.fault)
           /\ IF r.err = NoErr
              THEN /\ frame' = [frame EXCEPT ![g] =
                          [f1 EXCEPT !.stage = IF f.stage = opMulti THEN "CMD" ELSE opExec]]
                   /\ pc' = [pc EXCEPT ![g] = "conn"]
                   /\ UNCHANGED ret
              ELSE LET a == AfterDoHashOp(f1, r.err, <<>>)
                   IN  /\ frame' = [frame EXCEPT ![g] = a.frame]
                       /\ pc' = [pc EXCEPT ![g] = a.pc]
                       /\ ret' = [ret EXCEPT ![g] = a.ret]
    /\ UNCHANGED <<clientVars, store, clientOf, cn, calls, closeLog, teardown, outside,
                   obs, newVars>>

\* doHashOp: redis.Values(c.conn().Do(opExec)), and the facade method's use of it
DoExec(g, outcome) ==
    /\ ~Crashed
    /\ pc[g] = "io"
    /\ frame[g].stage = opExec
    /\ \E f \in {frame[g]} :
       \E cmd \in {StageCmd(f, g)} :
       \E r \in {DoOn(cn[g], conns, store, cmd, outcome)} :
       \E f1 \in {[f EXCEPT !.sent = Append(@, Sent(cn[g], cmd, r.err)),
                            !.changed = @ \/ g \in r.changed]} :
       \E a \in {AfterDoHashOp(f1, r.err, r.list)} :
       \E o \in {ObserveLog(obs, r.log)} :
           /\ conns' = r.conns
           /\ store' = r.st
           /\ ioFault' = (ioFault \/ r.fault)
           /\ outside' = (outside \/ r.outside)
           /\ frame' = [h \in Goroutines |->
                          IF h = g THEN a.frame
                          ELSE IF h \in r.changed THEN [frame[h] EXCEPT !.changed = TRUE]
                          ELSE frame[h]]
           /\ pc' = [pc EXCEPT ![g] = a.pc]
           /\ ret' = IF a.returns THEN [ret EXCEPT ![g] = a.ret] ELSE ret
           /\ obs' = ObserveCall(o, f, store, r.st, a.returns /\ a.ret.err = NoErr)
    /\ UNCHANGED <<clientVars, clientOf, cn, calls, closeLog, teardown, newVars>>

\* a goroutine calls Close
StartClose(g) ==
    /\ ~Crashed
    /\ pc[g] = "idle"
    /\ calls < MaxCalls
    /\ calls' = calls + 1
    /\ pc' = [pc EXCEPT ![g] = "close"]
    /\ frame' = [frame EXCEPT ![g] = [NoFrame EXCEPT !.op = "Close",
                                                      !.afterClose = onceDone[clientOf[g]]]]
    /\ ret' = [ret EXCEPT ![g] = NoRet]
    /\ UNCHANGED <<clientVars, conns, store, clientOf, cn, histVars, newVars>>

\* Close: closeOnce.Do returns at once when the once is done, and otherwise
\* takes the once's mutex; a caller arriving while another is inside waits
CloseOnce(g) ==
    /\ ~Crashed
    /\ pc[g] = "close"
    /\ LET c == clientOf[g]
           r == Close(onceDone[c], NoErr)
       IN  IF onceDone[c]
           THEN /\ closeLog' = [closeLog EXCEPT ![c] = Append(@, r.err)]
                /\ ret' = [ret EXCEPT ![g] = [op |-> "Close", err |-> r.err, val |-> NoReply]]
                /\ pc' = [pc EXCEPT ![g] = "idle"]
                /\ UNCHANGED onceMu
           ELSE /\ onceMu[c] = NoG
                /\ onceMu' = [onceMu EXCEPT ![c] = g]
                /\ pc' = [pc EXCEPT ![g] = "teardown"]
                /\ UNCHANGED <<closeLog, ret>>
    /\ UNCHANGED <<curConn, connMu, onceDone, pool, conns, store, clientOf, frame, cn,
                   calls, teardown, outside, ioFault, obs, newVars>>

\* Close: inside the once, err = c.pool.Close(); then the once is marked
\* done, its mutex released, and Close returns err
CloseTeardown(g, poolErr) ==
    /\ ~Crashed
    /\ pc[g] = "teardown"
    /\ LET c == clientOf[g]
           r == Close(onceDone[c], poolErr)
           p == PoolClose(pool[c], conns)
       IN  /\ onceDone' = [onceDone EXCEPT ![c] = r.done]
           /\ onceMu' = [onceMu EXCEPT ![c] = NoG]
           /\ pool' = IF r.ran THEN [pool EXCEPT ![c] = p.pool] ELSE pool
           /\ conns' = IF r.ran THEN p.conns ELSE conns
           /\ teardown' = IF r.ran THEN [teardown EXCEPT ![c] = poolErr] ELSE teardown
           /\ obs' = IF r.ran THEN [obs EXCEPT !.ran[c] = @ + 1] ELSE obs
           /\ closeLog' = [closeLog EXCEPT ![c] = Append(@, r.err)]
           /\ ret' = [ret EXCEPT ![g] = [op |-> "Close", err |-> r.err, val |-> NoReply]]
    /\ pc' = [pc EXCEPT ![g] = "idle"]
    /\ UNCHANGED <<curConn, connMu, store, clientOf, frame, cn, calls,
                   outside, ioFault, newVars>>

\* a goroutine calls ConnErr
StartConnErr(g) ==
    /\ ~Crashed
    /\ pc[g] = "idle"
    /\ calls < MaxCalls
    /\ calls' = calls + 1
    /\ pc' = [pc EXCEPT ![g] = "connerr"]
    /\ frame' = [frame EXCEPT ![g] = [NoFrame EXCEPT !.op = "ConnErr"]]
    /\ ret' = [ret EXCEPT ![g] = NoRet]
    /\ UNCHANGED <<clientVars, conns, store, clientOf, cn, histVars, newVars>>

\* ConnErr: Lock, read the held connection's error, Unlock
ConnErrBody(g) ==
    /\ ~Crashed
    /\ pc[g] = "connerr"
    /\ MutexFree(connMu[clientOf[g]], g)
    /\ ret' = [ret EXCEPT ![g] = [op |-> "ConnErr", val |-> NoReply,
                                   err |-> ConnErr(curConn[clientOf[g]], conns)]]
    /\ pc' = [pc EXCEPT ![g] = "idle"]
    /\ UNCHANGED <<clientVars, conns, store, clientOf, frame, cn, calls, histVars, newVars>>

Next ==
    \/ \E g \in Goroutines, f \in ConcInvocations : StartOp(g, f)
    \/ \E g \in Goroutines, dialOk \in BOOLEAN : Conn(g, dialOk)
    \/ \E g \in Goroutines, ok \in BOOLEAN : Send(g, ok)
    \/ \E g \in Goroutines, outcome \in {"ok", "wfail", "rfail"} : DoExec(g, outcome)
    \/ \E g \in Goroutines : StartClose(g)
    \/ \E g \in Goroutines : CloseOnce(g)
    \/ \E g \in Goroutines, poolErr \in {NoErr, ErrTeardown} : CloseTeardown(g, poolErr)
    \/ \E g \in Goroutines : StartConnErr(g)
    \/ \E g \in Goroutines : ConnErrBody(g)

Spec == Init /\ [][Next]_vars

\* what a goroutine does once its call is under way
GoStep(g) ==
    \/ \E dialOk \in BOOLEAN : Conn(g, dialOk)
    \/ \E ok \in BOOLEAN : Send(g, ok)
    \/ \E outcome \in {"ok", "wfail", "rfail"} : DoExec(g, outcome)
    \/ CloseOnce(g)
    \/ \E poolErr \in {NoErr, ErrTeardown} : CloseTeardown(g, poolErr)
    \/ ConnErrBody(g)

\* the Go scheduler runs every goroutine that can run
FairSpec == Spec /\ \A g \in Goroutines : WF_vars(GoStep(g))

\* one goroutine, one Client, every facade method
InitSeq ==
    /\ InitClients
    /\ InitNewDone
    /\ clientOf = [g \in Goroutines |-> "c1"]

NextSeq ==
    \/ \E f \in Invocations : StartOp("g1", f)
    \/ \E dialOk \in BOOLEAN : Conn("g1", dialOk)
    \/ \E ok \in BOOLEAN : Send("g1", ok)
    \/ \E outcome \in {"ok", "wfail", "rfail"} : DoExec("g1", outcome)
    \/ StartClose("g1")
    \/ CloseOnce("g1")
    \/ \E poolErr \in {NoErr, ErrTeardown} : CloseTeardown("g1", poolErr)
    \/ StartConnErr("g1")
    \/ ConnErrBody("g1")

SeqSpec == InitSeq /\ [][NextSeq]_vars

(* ------------------- one caller, a store that holds data --------------- *)

\* what the store may hold when the Client is made
StoreInits ==
    {EmptyStore,
     [EmptyStore EXCEPT !["A"] = [k \in Keys |-> IF k = "k" THEN "v" ELSE "w"]],
     [EmptyStore EXCEPT !["A"] = [k \in Keys |-> IF k = "k" THEN "v" ELSE Absent],
                        !["B"] = [k \in Keys |-> IF k = "k" THEN "x" ELSE "w"]]}

InitData ==
    /\ \E st \in StoreInits : InitClientsWith(st)
    /\ InitNewDone
    /\ clientOf = [g \in Goroutines |-> "c1"]

\* one goroutine makes the hash calls
NextHash ==
    \/ \E f \in HashInvocations : StartOp("g1", f)
    \/ \E dialOk \in BOOLEAN : Conn("g1", dialOk)
    \/ \E ok \in BOOLEAN : Send("g1", ok)
    \/ \E outcome \in {"ok", "wfail", "rfail"} : DoExec("g1", outcome)

HashSpec == InitData /\ [][NextHash]_vars

\* one goroutine makes the list calls
NextList ==
    \/ \E f \in ListInvocations : StartOp("g1", f)
    \/ \E dialOk \in BOOLEAN : Conn("g1", dialOk)
    \/ \E ok \in BOOLEAN : Send("g1", ok)
    \/ \E outcome \in {"ok", "wfail", "rfail"} : DoExec("g1", outcome)

ListSpec == InitData /\ [][NextList]_vars

(* --------------- a caller that moves, another Client that looks -------- *)

InitMove ==
    /\ \E st \in StoreInits : InitClientsWith(st)
    /\ InitNewDone
    /\ clientOf = [g \in Goroutines |-> IF g = "g1" THEN "c1" ELSE "c2"]

\* what the Client that looks calls
LookInvocations ==
    {NewFrame(op, t, t, "k", NilArg) : op \in {"HGet", "HExists"}, t \in Tables}

NextMove ==
    \/ StartOp("g1", NewFrame("HMove", "A", "B", "k", NilArg))
    \/ \E f \in LookInvocations : StartOp("g2", f)
    \/ \E g \in Goroutines, dialOk \in BOOLEAN : Conn(g, dialOk)
    \/ \E g \in Goroutines, ok \in BOOLEAN : Send(g, ok)
    \/ \E g \in Goroutines, outcome \in {"ok", "wfail", "rfail"} : DoExec(g, outcome)

MoveSpec == InitMove /\ [][NextMove]_vars

(* --------------------------------- New -------------------------------- *)

\* the error redisDialer's function returns for an endpoint that is not reachable
DialError(u) ==
    IF u = "u1" THEN "dial u1: connection refused"
    ELSE IF u = "u2" THEN "dial u2: connection refused"
    ELSE "dial u3: connection refused"

URLLists == UNION {[1 .. n -> Endpoints] : n \in 0 .. MaxURLs}

\* New's loop without its break: every endpoint is dialed
NewDialNoBreak(us, i, reach, dialFn) ==
    IF us[i] \in reach
    THEN [dialFn |-> us[i], break |-> FALSE, probeOpen |-> FALSE]
    ELSE [dialFn |-> dialFn, break |-> FALSE, probeOpen |-> FALSE]

\* New's loop without conn.Close(): the connection just dialed stays open
NewDialProbeLeftOpen(us, i, reach, dialFn) ==
    IF us[i] \in reach
    THEN [dialFn |-> us[i], break |-> TRUE, probeOpen |-> TRUE]
    ELSE [dialFn |-> dialFn, break |-> FALSE, probeOpen |-> FALSE]

\* one round of New's loop over redisServerURLs, at index i: dial the
\* endpoint; on an error go on to the next; otherwise close the connection
\* just dialed, keep the dialer and leave the loop
NewDial(us, i, reach, dialFn) ==
    LET srvURL == us[i]
        err == IF srvURL \in reach THEN NoErr ELSE DialError(srvURL)
    IN  IF err # NoErr
        THEN [dialFn |-> dialFn, break |-> FALSE, probeOpen |-> FALSE]
        ELSE [dialFn |-> srvURL, break |-> TRUE, probeOpen |-> FALSE]

\* New returning the error of the last dial when no endpoint answered
NewResultLastDialError(dialFn) ==
    IF dialFn = NoURL
    THEN [client |-> FALSE,
          err |-> IF dialed = <<>> THEN errInvalidRedisURLs
                  ELSE DialError(dialed[Len(dialed)])]
    ELSE [client |-> TRUE, err |-> NoErr]

\* New after the loop: no dialer, no Client
NewResult(dialFn) ==
    IF dialFn = NoURL
    THEN [client |-> FALSE, err |-> errInvalidRedisURLs]
    ELSE [client |-> TRUE, err |-> NoErr]

InitNew ==
    /\ InitClients
    /\ clientOf = [g \in Goroutines |-> "c1"]
    /\ urls \in URLLists
    /\ reachable \in SUBSET Endpoints
    /\ newPc = "loop"
    /\ newIdx = 1
    /\ newDialFn = NoURL
    /\ newErr = NoErr
    /\ newClient = FALSE
    /\ dialed = <<>>
    /\ probeOpen = FALSE

NewLoop ==
    /\ newPc = "loop"
    /\ newIdx <= Len(urls)
    /\ LET r == NewDial(urls, newIdx, reachable, newDialFn)
       IN  /\ dialed' = Append(dialed, urls[newIdx])
           /\ probeOpen' = r.probeOpen
           /\ newDialFn' = r.dialFn
           /\ IF r.break
              THEN newPc' = "check" /\ UNCHANGED newIdx
              ELSE newIdx' = newIdx + 1 /\ UNCHANGED newPc
    /\ UNCHANGED <<clientVars, conns, store, goVars, histVars, urls, reachable, newErr, newClient>>

NewLoopEnd ==
    /\ newPc = "loop"
    /\ newIdx > Len(urls)
    /\ newPc' = "check"
    /\ UNCHANGED <<clientVars, conns, store, goVars, histVars, urls, reachable, newIdx,
                   newDialFn, newErr, newClient, dialed, probeOpen>>

NewReturn ==
    /\ newPc = "check"
    /\ LET r == NewResult(newDialFn)
       IN  /\ newClient' = r.client
           /\ newErr' = r.err
    /\ newPc' = "done"
    /\ UNCHANGED <<clientVars, conns, store, goVars, histVars, urls, reachable, newIdx,
                   newDialFn, dialed, probeOpen>>

NextNew == NewLoop \/ NewLoopEnd \/ NewReturn

NewSpec == InitNew /\ [][NextNew]_vars

(* ------------------------------ the reads ------------------------------ *)

\* one goroutine makes the read calls
NextRead ==
    \/ \E f \in ReadInvocations : StartOp("g1", f)
    \/ \E dialOk \in BOOLEAN : Conn("g1", dialOk)
    \/ \E ok \in BOOLEAN : Send("g1", ok)
    \/ \E outcome \in {"ok", "wfail", "rfail"} : DoExec("g1", outcome)

ReadSpec == InitData /\ [][NextRead]_vars

(* ------------------------- two Clients that pop ------------------------ *)

\* two Clients, one goroutine each, call HPop on the same field; nothing
\* else writes to the store
NextPop ==
    \/ \E g \in Goroutines : StartOp(g, NewFrame("HPop", "A", "A", "k", NilArg))
    \/ \E g \in Goroutines, dialOk \in BOOLEAN : Conn(g, dialOk)
    \/ \E g \in Goroutines, ok \in BOOLEAN : Send(g, ok)
    \/ \E g \in Goroutines, outcome \in {"ok", "wfail", "rfail"} : DoExec(g, outcome)

PopSpec == InitMove /\ [][NextPop]_vars

(* ------------------- New and the Client's first calls ------------------ *)

\* New on a short list of endpoints, then one caller's calls on the Client
\* it returned: ConnErr and HSet
InitFirst ==
    /\ InitClients
    /\ clientOf = [g \in Goroutines |-> "c1"]
    /\ urls \in {<<>>, <<"u1">>, <<"u2", "u1">>}
    /\ reachable \in SUBSET {"u1", "u2"}
    /\ newPc = "loop"
    /\ newIdx = 1
    /\ newDialFn = NoURL
    /\ newErr = NoErr
    /\ newClient = FALSE
    /\ dialed = <<>>
    /\ probeOpen = FALSE

\* New has returned a Client
NewGaveClient == newPc = "done" /\ newClient

NextFirst ==
    \/ NewLoop
    \/ NewLoopEnd
    \/ NewReturn
    \/ NewGaveClient /\ StartOp("g1", NewFrame("HSet", "A", NilArg, "k", "v"))
    \/ \E dialOk \in BOOLEAN : Conn("g1", dialOk)
    \/ \E ok \in BOOLEAN : Send("g1", ok)
    \/ \E outcome \in {"ok", "wfail", "rfail"} : DoExec("g1", outcome)
    \/ NewGaveClient /\ StartConnErr("g1")
    \/ ConnErrBody("g1")

FirstSpec == InitFirst /\ [][NextFirst]_vars

\* the connections of a Client's pool that are borrowed
Borrowed(c) == {i \in ConnIds : conns[i].state = "active" /\ conns[i].pool = c}

(* ------------------------ the pool on its own -------------------------- *)

\* the connections of c's pool that borrowers outside the model hold
OthersHold(c) == pool[c].active - Cardinality(Borrowed(c)) - Len(pool[c].idle)

\* a borrower outside the model takes a connection from the pool of
\* poolFromDialer: a dial, counted in active
OtherBorrow ==
    /\ ~pool["c1"].closed
    /\ pool["c1"].idle = <<>>
    /\ pool["c1"].active < MaxActive
    /\ pool' = [pool EXCEPT !["c1"].active = @ + 1]
    /\ UNCHANGED <<curConn, connMu, onceDone, onceMu, conns, store, goVars, histVars, newVars>>

\* and hands back one that has failed, which the pool closes
OtherRelease ==
    /\ OthersHold("c1") > 0
    /\ pool' = [pool EXCEPT !["c1"].active = @ - 1]
    /\ UNCHANGED <<curConn, connMu, onceDone, onceMu, conns, store, goVars, histVars, newVars>>

\* poolConn: a goroutine borrows from the pool
PoolBorrow(g, dialOk) ==
    /\ pc[g] = "idle"
    /\ LET r == poolConn(pool["c1"], conns, "c1", dialOk)
       IN  /\ pool' = [pool EXCEPT !["c1"] = r.pool]
           /\ conns' = r.conns
           /\ cn' = [cn EXCEPT ![g] = r.ref]
           /\ pc' = [pc EXCEPT ![g] = IF r.ref.kind = "pooled" THEN "borrowed" ELSE "refused"]
    /\ UNCHANGED <<curConn, connMu, onceDone, onceMu, store, clientOf, frame, ret, calls,
                   histVars, newVars>>

\* the goroutine closes what it was given
PoolRelease(g) ==
    /\ pc[g] \in {"borrowed", "refused"}
    /\ LET r == ConnClose(pool["c1"], conns, cn[g])
       IN  /\ pool' = [pool EXCEPT !["c1"] = r.pool]
           /\ conns' = r.conns
    /\ cn' = [cn EXCEPT ![g] = NilConn]
    /\ pc' = [pc EXCEPT ![g] = "idle"]
    /\ UNCHANGED <<curConn, connMu, onceDone, onceMu, store, clientOf, frame, ret, calls,
                   histVars, newVars>>

NextPool ==
    \/ OtherBorrow
    \/ OtherRelease
    \/ \E g \in Goroutines, dialOk \in BOOLEAN : PoolBorrow(g, dialOk)
    \/ \E g \in Goroutines : PoolRelease(g)

PoolSpec == InitSeq /\ [][NextPool]_vars

(* ------------------------------- claims ------------------------------- *)

\* C1: on one Client the first Close to return gives what pool.Close() gave
\* (nil or the teardown error) and every later Close gives
\* ErrConnectionAlreadyClosed, also when the teardown gave an error.
C1_CloseOnce ==
    \A c \in Clients : \A i \in 1 .. Len(closeLog[c]) :
        closeLog[c][i] = IF i = 1 THEN teardown[c] ELSE ErrConnectionAlreadyClosed

\* Close called three times in a row on c1, the teardown having failed
C1_Witness ==
    /\ closeLog["c1"] = <<ErrTeardown, ErrConnectionAlreadyClosed, ErrConnectionAlreadyClosed>>
    /\ teardown["c1"] = ErrTeardown
    /\ calls = 3
    /\ pc["g2"] = "idle" /\ ret["g2"].op = "none"

\* C2: once Close has returned on a Client, every facade call made on it
\* afterwards fails with ErrConnectionAlreadyClosed and sends nothing to the
\* store, whether or not the Client was holding a connection.
C2_ClosedRejectsCalls ==
    \A g \in Goroutines :
        (frame[g].op \in FacadeOps /\ frame[g].afterClose) =>
            /\ \A i \in 1 .. Len(frame[g].sent) : ~frame[g].sent[i].ok
            /\ (pc[g] = "idle" => ret[g].err = ErrConnectionAlreadyClosed)

\* C3: a call that needs the Client's connection while the held connection
\* reports a fault returns to its caller in the end, and so does every other
\* caller waiting on connMu (an operation or ConnErr).
C3_FaultedConnReplaced ==
    \A g \in Goroutines :
        (pc[g] \in {"conn", "connerr"} /\ ConnErrOf(curConn[clientOf[g]], conns) # NoErr)
            ~> (pc[g] = "idle" \/ Crashed)

\* C4: with goroutines sharing a Client and no i/o error anywhere, no command
\* is run by the store outside the MULTI/EXEC of the call that sent it, and a
\* doHashOp that returns an error has not changed the store.
C4_TripleIsOneUnit ==
    ~ioFault =>
        /\ ~outside
        /\ \A g \in Goroutines :
              ((pc[g] = "idle" /\ ret[g].op \in FacadeOps /\ ret[g].err # NoErr)
                  => ~frame[g].changed)

\* C5: a doHashOp that returns without error returns exactly one reply, the
\* store's reply to the command this call queued.
C5_OneReplyOwnCommand ==
    \A g \in Goroutines :
        (frame[g].last.done /\ frame[g].last.err = NoErr) =>
            /\ Len(frame[g].last.list) = 1
            /\ frame[g].last.list[1].by = g

\* the command name and the collection of the n-th doHashOp of a facade
\* method, and the arguments its caller passes after the collection
WantName(f, n) ==
    IF f.op = "HSet" THEN "HSET"
    ELSE IF f.op = "HGet" THEN "HGET"
    ELSE IF f.op = "HDel" THEN "HDEL"
    ELSE IF n = 1 THEN "HGET" ELSE IF n = 2 THEN "HDEL" ELSE "HSET"
WantTable(f, n) == IF f.op = "HMove" /\ n = 3 THEN f.table2 ELSE f.table
WantArgs(f, n) ==
    IF f.op = "HSet" THEN <<f.key, f.value>>
    ELSE IF f.op = "HMove" /\ n = 3
    THEN <<f.key, IF f.entry.kind = "bulk" THEN f.entry.s ELSE NilArg>>
    ELSE <<f.key>>

\* C6 as stated: every facade call sends, on one connection and in this
\* order, exactly MULTI, one command (the collection, then the caller's
\* arguments) and EXEC (no more than three sends succeed), and sends nothing
\* after a send that failed.
C6_OneTriplePerCall ==
    \A g \in Goroutines : frame[g].op \in FacadeOps =>
        LET L == frame[g].sent IN
        /\ Cardinality({i \in 1 .. Len(L) : L[i].ok}) <= 3
        /\ \A i \in 1 .. Len(L) :
              /\ L[i].name = (IF i = 1 THEN "MULTI" ELSE IF i = 3 THEN "EXEC"
                               ELSE WantName(frame[g], 1))
              /\ (i = 2 => L[i].args = <<WantTable(frame[g], 1)>> \o WantArgs(frame[g], 1))
              /\ (i > 1 => (L[i - 1].ok /\ L[i].conn = L[i - 1].conn))
        /\ ((pc[g] = "idle" /\ ret[g].err = NoErr) => Len(L) = 3)
        /\ ((pc[g] = "idle" /\ L # <<>> /\ ~L[Len(L)].ok) => ret[g].err # NoErr)

\* C6 amended: every doHashOp call (a simple facade method makes one, HPop
\* two, HMove three) sends, on one connection and in this order, exactly
\* MULTI, one command (the collection, then the caller's arguments) and EXEC;
\* after a send that failed nothing more is sent and the error is returned.
C6_OneTriplePerDoHashOp ==
    \A g \in Goroutines : frame[g].op \in FacadeOps =>
        LET L == frame[g].sent IN
        /\ Len(L) <= 3 * Phases(frame[g].op)
        /\ \A i \in 1 .. Len(L) :
              LET n == ((i - 1) \div 3) + 1
                  at == ((i - 1) % 3) + 1
              IN  /\ L[i].name = (IF at = 1 THEN "MULTI" ELSE IF at = 3 THEN "EXEC"
                                   ELSE WantName(frame[g], n))
                  /\ (at = 2 => L[i].args = <<WantTable(frame[g], n)>> \o WantArgs(frame[g], n))
                  /\ (at # 2 => L[i].args = <<>>)
                  /\ (at > 1 => L[i].conn = L[i - 1].conn)
                  /\ (i > 1 => L[i - 1].ok)
        /\ ((pc[g] = "idle" /\ ret[g].err = NoErr) => Len(L) = 3 * Phases(frame[g].op))
        /\ ((pc[g] = "idle" /\ L # <<>> /\ ~L[Len(L)].ok) => ret[g].err # NoErr)

\* HMove has returned without error after moving a value: three triples
C6_Witness ==
    /\ pc["g1"] = "idle"
    /\ frame["g1"].op = "HMove"
    /\ ret["g1"].err = NoErr
    /\ ret["g1"].val.kind = "bulk"
    /\ Len(frame["g1"].sent) = 9

\* C7: a Client has at most one connection borrowed from its pool, the one
\* in _curConn, and no connection is held or used by two Clients at once.
C7_OneBorrowedConn ==
    /\ \A c \in Clients :
          /\ Cardinality(Borrowed(c)) <= 1
          /\ pool[c].active = Cardinality(Borrowed(c))
          /\ \A i \in Borrowed(c) : curConn[c] = PooledConn(i)
    /\ \A c \in Clients, d \in Clients :
          (c # d /\ curConn[c].kind = "pooled") => curConn[c] # curConn[d]
    /\ \A g \in Goroutines, h \in Goroutines :
          (clientOf[g] # clientOf[h] /\ pc[g] = "io" /\ pc[h] = "io" /\ cn[g].kind = "pooled")
              => cn[g] # cn[h]

\* two Clients hold a connection each while a goroutine of each is sending
C7_Witness ==
    /\ curConn["c1"].kind = "pooled"
    /\ curConn["c2"].kind = "pooled"
    /\ pc["g1"] = "io" /\ pc["g2"] = "io"
    /\ clientOf["g1"] # clientOf["g2"]

\* C8: after Close has returned on a Client, the Client holds no connection
\* and no connection borrowed from its pool is still open.
C8_ClosedHoldsNothing ==
    \A c \in Clients : onceDone[c] =>
        /\ curConn[c].kind # "pooled"
        /\ \A i \in Borrowed(c) : conns[i].err # NoErr

FirstReachable(us, reach) == MinOf({i \in 1 .. Len(us) : us[i] \in reach})

\* C9: for a list with a reachable endpoint, New returns a Client and no
\* error, its dialer is the first reachable endpoint of the list, and the
\* endpoints dialed are those of the list up to that one.
C9_FirstReachable ==
    (newPc = "done" /\ \E i \in 1 .. Len(urls) : urls[i] \in reachable) =>
        /\ newClient
        /\ newErr = NoErr
        /\ newDialFn = urls[FirstReachable(urls, reachable)]
        /\ dialed = SubSeq(urls, 1, FirstReachable(urls, reachable))

\* New has returned for a list whose second and third endpoints are reachable
C9_Witness ==
    /\ newPc = "done"
    /\ newClient
    /\ Len(urls) = 3
    /\ urls[1] \notin reachable
    /\ urls[2] \in reachable /\ urls[3] \in reachable /\ urls[2] # urls[3]

FailedSends(L) == {i \in 1 .. Len(L) : ~L[i].ok}

\* C11: a call that meets a connection fault (a send or EXEC fails with an
\* i/o error on the held connection) tries once more on a freshly borrowed
\* connection before it returns the error, so that a call returning the i/o
\* error has failed twice, on two connections; a call returning any other
\* error has failed once and sent nothing afterwards.
C11_FaultRetriedOnce ==
    \A g \in Goroutines :
        (pc[g] = "idle" /\ ret[g].op \in FacadeOps /\ ret[g].err # NoErr) =>
            LET L == frame[g].sent IN
            IF ret[g].err = ErrIO
            THEN /\ Cardinality(FailedSends(L)) = 2
                 /\ \A i \in FailedSends(L), j \in FailedSends(L) :
                       (i # j => L[i].conn # L[j].conn)
            ELSE /\ Cardinality(FailedSends(L)) = 1
                 /\ ~L[Len(L)].ok

\* C12: a borrow from the pool of poolFromDialer is never refused because the
\* pool has MaxActive connections out: the borrower waits for a release.
C12_SaturatedBorrowWaits ==
    \A g \in Goroutines : pc[g] = "refused" => cn[g].err # ErrPoolExhausted

\* fmt.Sprintf("%s", v) of a value a facade method returned
StrOf(r) == IF r.kind = "bulk" THEN r.s ELSE "%!s(" \o r.kind \o ")"

\* the caller g has returned from a call of op, without an error
Returned(g, op) ==
    /\ pc[g] = "idle"
    /\ frame[g].op = op
    /\ ret[g].op = op
    /\ ret[g].err = NoErr

\* what the caller knows of the field its last call was about
KnownOf(g) == obs.known[frame[g].table][frame[g].key]

\* C13 as stated: whatever value V an HSet that succeeded wrote to a field
\* not written since, HGet returns a value whose string form is that of V
\* (fmt's %v), and HExists returns true.
C13_RoundTripAnyValue ==
    \A g \in Goroutines :
        /\ (Returned(g, "HGet") /\ KnownOf(g) \notin {Unknown, Gone})
              => StrOf(ret[g].val) = GoRepr(KnownOf(g))
        /\ (Returned(g, "HExists") /\ KnownOf(g) \notin {Unknown, Gone})
              => ret[g].val.s = "true"

\* C13 amended: the same for every V that is neither nil nor a bool (redigo
\* writes nil as the empty string and true as 1); HExists returns true for
\* every V.
C13_RoundTripStrings ==
    \A g \in Goroutines :
        /\ (Returned(g, "HGet") /\ KnownOf(g) \notin {Unknown, Gone, NilArg, GoTrue})
              => StrOf(ret[g].val) = GoRepr(KnownOf(g))
        /\ (Returned(g, "HGet") /\ KnownOf(g) = NilArg) => StrOf(ret[g].val) = ""
        /\ (Returned(g, "HGet") /\ KnownOf(g) = GoTrue) => StrOf(ret[g].val) = "1"
        /\ (Returned(g, "HExists") /\ KnownOf(g) \notin {Unknown, Gone})
              => ret[g].val.s = "true"

\* HGet has returned the string an HSet on a field that held another value wrote
C13_Witness ==
    /\ Returned("g1", "HGet")
    /\ frame["g1"].table = "B"
    /\ KnownOf("g1") = "v"
    /\ StrOf(ret["g1"].val) = "v"

\* C14: HPop of a field that is there returns its value and leaves the field
\* gone and every other field of the table as it was; HExists then returns
\* false.
C14_PopReturnsAndRemoves ==
    \A g \in Goroutines :
        LET f == frame[g] IN
        /\ (Returned(g, "HPop") /\ f.pre[f.table][f.key] # Absent) =>
              /\ ret[g].val.kind = "bulk"
              /\ StrOf(ret[g].val) = f.pre[f.table][f.key]
              /\ store[f.table][f.key] = Absent
              /\ \A j \in Keys \ {f.key} : store[f.table][j] = f.pre[f.table][j]
              /\ KnownOf(g) = Gone
        /\ (Returned(g, "HExists") /\ KnownOf(g) = Gone) => ret[g].val.s = "false"

\* HPop has returned the value of k, the table holding j as well
C14_Witness ==
    /\ Returned("g1", "HPop")
    /\ frame["g1"].pre["A"] = [k \in Keys |-> IF k = "k" THEN "v" ELSE "w"]
    /\ StrOf(ret["g1"].val) = "v"
    /\ store["A"]["j"] = "w"

\* C15: HMove of a field that is there, between two tables, returns its
\* value, leaves it gone from the first table and under the same key in the
\* second; afterwards HExists is false on the first table and true on the
\* second, and HGet on the second returns the value.
C15_MoveCarriesValue ==
    \A g \in Goroutines :
        LET f == frame[g] IN
        /\ (Returned(g, "HMove") /\ f.table # f.table2 /\ f.pre[f.table][f.key] # Absent) =>
              /\ StrOf(ret[g].val) = f.pre[f.table][f.key]
              /\ store[f.table][f.key] = Absent
              /\ store[f.table2][f.key] = f.pre[f.table][f.key]
              /\ obs.known[f.table][f.key] = Gone
              /\ obs.known[f.table2][f.key] = f.pre[f.table][f.key]
        /\ (Returned(g, "HExists") /\ KnownOf(g) # Unknown)
              => ret[g].val.s = (IF KnownOf(g) = Gone THEN "false" ELSE "true")
        /\ (Returned(g, "HGet") /\ KnownOf(g) \notin {Unknown, Gone, NilArg, GoTrue})
              => StrOf(ret[g].val) = KnownOf(g)

\* HMove has returned the value of A's k, which B now holds in place of its own
C15_Witness ==
    /\ Returned("g1", "HMove")
    /\ frame["g1"].pre["A"]["k"] = "v"
    /\ frame["g1"].pre["B"]["k"] = "x"
    /\ store["B"]["k"] = "v"
    /\ StrOf(ret["g1"].val) = "v"

\* HMove has returned after its HDel went through and its HSet did not
MoveFailedAtSet(g) ==
    /\ pc[g] = "idle"
    /\ frame[g].op = "HMove"
    /\ frame[g].phase = 3
    /\ frame[g].last.done
    /\ frame[g].last.err # NoErr
    /\ frame[g].pre[frame[g].table][frame[g].key] # Absent

\* the last thing the call of g sent, which failed, was EXEC
FailedAtExec(g) ==
    LET L == frame[g].sent IN L # <<>> /\ L[Len(L)].name = opExec /\ ~L[Len(L)].ok

\* C16 as stated: when HMove's delete has succeeded and its HSet fails, HMove
\* returns that error and the entry is in neither table: gone from the
\* first, and the second as it was.
C16_FailedMoveLeavesNeither ==
    \A g \in Goroutines :
        LET f == frame[g] IN
        MoveFailedAtSet(g) =>
            /\ ret[g].err = f.last.err
            /\ store[f.table][f.key] = Absent
            /\ store[f.table2][f.key] = f.pre[f.table2][f.key]

\* C16 amended: then HMove returns that error and the entry is gone from the
\* first table; the second is as it was, unless what failed was the reading
\* of EXEC's reply after the store had run the HSet, and then the second
\* table holds the entry. A call of another Client that starts after the
\* delete and before the set sees the entry in neither table.
C16_FailedMoveLosesOrLands ==
    \A g \in Goroutines :
        LET f == frame[g] IN
        /\ MoveFailedAtSet(g) =>
              /\ ret[g].err = f.last.err
              /\ store[f.table][f.key] = Absent
              /\ \/ store[f.table2][f.key] = f.pre[f.table2][f.key]
                 \/ (FailedAtExec(g) /\ store[f.table2][f.key] = f.pre[f.table][f.key])
        /\ \A h \in Goroutines \ {g} :
              (/\ f.op = "HMove" /\ f.phase = 3 /\ pc[g] # "idle"
               /\ f.pre[f.table][f.key] # Absent /\ ~f.changed
               /\ clientOf[h] # clientOf[g]
               /\ Returned(h, "HExists") /\ frame[h].pre = store
               /\ frame[h].key = f.key /\ store[frame[h].table][f.key] = Absent)
                  => ret[h].val.s = "false"

\* HMove has failed at its HSet on an empty second table, and the other
\* Client has asked whether the second table holds the key after the delete
\* and been told that it does not
C16_Witness ==
    /\ MoveFailedAtSet("g1")
    /\ frame["g1"].pre["B"]["k"] = Absent
    /\ store["A"]["k"] = Absent /\ store["B"]["k"] = Absent
    /\ clientOf["g2"] = "c2"
    /\ Returned("g2", "HExists")
    /\ frame["g2"].table = "B"
    /\ frame["g2"].pre["A"]["k"] = Absent
    /\ ret["g2"].val.s = "false"

\* the first reply is not of the shape the method op expects
Misshapen(op, first) ==
    IF op \in {"LLen", "SIsMember"} THEN first.kind # "int"
    ELSE IF op = "HExists" THEN ~(first.kind = "int" /\ first.n \in {0, 1})
    ELSE FALSE

\* C17: a facade method whose doHashOp returned no error but an empty reply
\* list, or a first reply of the wrong shape (LLen or SIsMember given
\* something that is not an integer), returns an error to its caller and
\* does not abort.
C17_MisshapenReplyIsError ==
    \A g \in Goroutines :
        LET f == frame[g] IN
        (/\ f.op \in SimpleOps
         /\ f.last.done /\ f.last.err = NoErr
         /\ (f.last.list = <<>> \/ Misshapen(f.op, f.last.list[1])))
            => /\ pc[g] # "panic"
               /\ (pc[g] = "idle" => ret[g].err # NoErr)

\* the data commands of goroutine g that a usable connection still has to
\* deliver, or that the store holds queued
Pending(g) ==
    {c \in UNION {{conns[i].buf[n] : n \in 1 .. Len(conns[i].buf)}
                     \cup {conns[i].sess.queue[n] : n \in 1 .. Len(conns[i].sess.queue)} :
                  i \in {j \in ConnIds : conns[j].state = "active" /\ conns[j].err = NoErr}} :
        c.by = g /\ c.name \notin {opMulti, opExec}}

\* C18: the store never runs a command of a later call of a caller before a
\* command of an earlier call of the same caller: every command the store
\* runs belongs to a call at least as late as the last one it ran for that
\* caller, and when a call returns nothing of it is left waiting to be run.
C18_AppliedInOrder ==
    /\ ~obs.reordered
    /\ \A g \in Goroutines :
          /\ obs.lastApplied[g] <= obs.issued[g]
          /\ (pc[g] = "idle" => Pending(g) = {})

\* the second HSet of a caller on a field has replaced what its first wrote
C18_Witness ==
    /\ Returned("g1", "HSet")
    /\ obs.lastApplied["g1"] = 2
    /\ frame["g1"].pre["A"]["k"] = "1"
    /\ store["A"]["k"] = "v"

\* C19: on a list that was empty, the pushes and pops that succeeded leave
\* the earliest pushed items: the store holds them, latest first; LLen
\* returns their number; and when one is left LIndex(0) returns it, the
\* first pushed.
C19_ListKeepsEarliest ==
    obs.listKnown =>
        /\ store[ListTable] = Reverse([n \in 1 .. Len(obs.expect) |-> ArgToBulk(obs.expect[n])])
        /\ \A g \in Goroutines :
              /\ (Returned(g, "LLen") /\ frame[g].table = ListTable)
                    => (ret[g].val.kind = "int" /\ ret[g].val.n = Len(obs.expect))
              /\ (Returned(g, "LIndex") /\ frame[g].items = <<"0">> /\ Len(obs.expect) = 1)
                    => StrOf(ret[g].val) = GoRepr(obs.expect[1])

\* a and b pushed by one LPush, one LPop, and LIndex(0) has returned a
C19_Witness ==
    /\ Returned("g1", "LIndex")
    /\ obs.issued["g1"] = 3
    /\ obs.popped = 1
    /\ obs.expect = <<"a">>
    /\ StrOf(ret["g1"].val) = "a"

\* the Close calls on c that returned something other than
\* ErrConnectionAlreadyClosed
TeardownResults(c) ==
    {i \in 1 .. Len(closeLog[c]) : closeLog[c][i] # ErrConnectionAlreadyClosed}

\* C20: with goroutines calling Close on one Client side by side, the pool
\* teardown runs at most once and has run once when any Close has returned;
\* one Close returns the teardown's result and every other one
\* ErrConnectionAlreadyClosed; at most one goroutine is inside the teardown.
C20_ConcurrentCloseOnce ==
    \A c \in Clients :
        /\ obs.ran[c] <= 1
        /\ Cardinality({g \in Goroutines : clientOf[g] = c /\ pc[g] = "teardown"}) <= 1
        /\ (closeLog[c] # <<>>) =>
              /\ obs.ran[c] = 1
              /\ Cardinality(TeardownResults(c)) = 1
              /\ \A i \in TeardownResults(c) : closeLog[c][i] = teardown[c]

\* g1 and g2 both called Close on c1 before the once was done, and both
\* have returned
C20_Witness ==
    /\ clientOf["g1"] = "c1" /\ clientOf["g2"] = "c1"
    /\ pc["g1"] = "idle" /\ ret["g1"].op = "Close"
    /\ pc["g2"] = "idle" /\ ret["g2"].op = "Close"
    /\ {ret["g1"].err, ret["g2"].err} = {teardown["c1"], ErrConnectionAlreadyClosed}
    /\ ~frame["g1"].afterClose /\ ~frame["g2"].afterClose
    /\ Len(closeLog["c1"]) = 2
    /\ obs.ran["c1"] = 1

\* no facade operation has been called yet
NoOpYet == \A g \in Goroutines : obs.issued[g] = 0

\* C21: a Client New has returned holds no connection until its first
\* operation: the connection New dialed is closed, none is borrowed and
\* _curConn is nil; ConnErr returns nil while _curConn is nil; and _curConn
\* changes from nil only in the conn() of an operation, which borrows the
\* connection it stores from the Client's pool.
C21_UnopenedUntilFirstOp ==
    /\ [](NewGaveClient => ~probeOpen)
    /\ []((NewGaveClient /\ NoOpYet) =>
             /\ curConn["c1"] = NilConn
             /\ Borrowed("c1") = {}
             /\ pool["c1"].active = 0)
    /\ [](\A g \in Goroutines :
             (pc[g] = "idle" /\ ret[g].op = "ConnErr" /\ curConn[clientOf[g]] = NilConn)
                 => ret[g].err = NoErr)
    /\ [][\A c \in Clients :
             (curConn[c] = NilConn /\ curConn'[c] # NilConn) =>
                 /\ \E g \in Goroutines :
                       /\ clientOf[g] = c /\ pc[g] = "conn" /\ pc'[g] = "io"
                       /\ frame[g].op \in FacadeOps
                       /\ cn'[g] = curConn'[c]
                 /\ curConn'[c].kind = "pooled" =>
                       /\ conns[curConn'[c].id].state # "active"
                       /\ Borrowed(c)' = {curConn'[c].id}
                       /\ pool'[c].active = 1]_vars

\* New dialed u2 in vain and then u1, ConnErr returned nil on the Client
\* that holds nothing, and the HSet called next has borrowed a connection
C21_Witness ==
    /\ NewGaveClient /\ dialed = <<"u2", "u1">>
    /\ calls = 2 /\ obs.issued["g1"] = 1
    /\ frame["g1"].op = "HSet" /\ pc["g1"] = "io"
    /\ curConn["c1"].kind = "pooled"
    /\ Borrowed("c1") = {curConn["c1"].id}

\* the fields a hash of the store holds
KeysOf(st, t) == {k \in Keys : st[t][k] # Absent}

\* C22: HLen(T) sends HLEN for T and returns, as an int64, the number of
\* fields T holds; HExists(T, K) returns, as a bool, true when T holds K and
\* false when it does not.
C22_LenAndExists ==
    \A g \in Goroutines :
        LET f == frame[g] IN
        /\ Returned(g, "HLen") =>
              /\ \E n \in 1 .. Len(f.sent) :
                    f.sent[n].name = opHLen /\ f.sent[n].args = <<f.table>>
              /\ \A n \in 1 .. Len(f.sent) : f.sent[n].name \in {opMulti, opHLen, opExec}
              /\ ret[g].val.kind = "int"
              /\ ret[g].val.n = Cardinality(KeysOf(f.pre, f.table))
        /\ Returned(g, "HExists") =>
              /\ ret[g].val.kind = "bool"
              /\ ret[g].val.s = (IF f.key \in KeysOf(f.pre, f.table) THEN "true" ELSE "false")

\* after a call that removed k from the table that held k and j, HLen has
\* returned 1
C22_Witness ==
    /\ Returned("g1", "HLen")
    /\ frame["g1"].table = "A"
    /\ KeysOf(frame["g1"].pre, "A") = {"j"}
    /\ ret["g1"].val.n = 1
    /\ obs.issued["g1"] = 2

\* C23: an HMove of a key the first table does not hold leaves both tables
\* as they were when it was called, while it runs and when it has returned.
C23_MoveOfMissingKeyChangesNothing ==
    \A g \in Goroutines :
        LET f == frame[g] IN
        (f.op = "HMove" /\ f.pre[f.table][f.key] = Absent) =>
            /\ store[f.table] = f.pre[f.table]
            /\ store[f.table2] = f.pre[f.table2]

\* C24: of two HPop calls that two Clients make on a field the table holds
\* once, at most one returns the value: when both have returned and one
\* returned the value, the other returned nil.
C24_OnePopGetsValue ==
    \A g \in Goroutines : \A h \in Goroutines \ {g} :
        (/\ clientOf[g] # clientOf[h]
         /\ Returned(g, "HPop") /\ Returned(h, "HPop")
         /\ frame[g].table = frame[h].table /\ frame[g].key = frame[h].key
         /\ ret[g].val.kind = "bulk")
            => ret[h].val.kind = "nil"

ReadOps == {"HGet", "HMGet", "HKeys", "HLen", "HExists", "LLen", "LIndex", "SMembers",
            "SIsMember"}

\* C25: from the moment a read operation is called, while it runs and when
\* it has returned a result or an error (or panicked), every collection of
\* the store is as it was when the call was made, and none of the call's
\* commands has changed the store.
C25_ReadsChangeNothing ==
    \A g \in Goroutines :
        frame[g].op \in ReadOps => (store = frame[g].pre /\ ~frame[g].changed)

\* HKeys on the hash that holds k and j has returned an i/o error after the
\* store ran its batch, the list holding an item
C25_Witness ==
    /\ pc["g1"] = "idle" /\ ret["g1"].op = "HKeys" /\ ret["g1"].err = ErrIO
    /\ FailedAtExec("g1")
    /\ obs.lastApplied["g1"] = obs.issued["g1"]
    /\ KeysOf(store, "A") = {"k", "j"}
    /\ store[ListTable] = <<"a">>

====
